---- MODULE Spec2Model ----
(***************************************************************************)
(* cybozu::ZlibCompressorT / cybozu::ZlibDecompressorT (cybozu/zlib.hpp).  *)
(*                                                                         *)
(* The two classes are modelled statement by statement.  The block engine  *)
(* (zlib's deflate / inflate / crc32) is an external collaborator: it is   *)
(* modelled by the contract zlib.h documents for the calls the classes     *)
(* make (what is consumed, what is produced, which status is returned),    *)
(* over an abstract token format that stands for a DEFLATE body.           *)
(***************************************************************************)
EXTENDS Integers, Sequences, FiniteSets, TLC

(* ------------------------------------------------------------------ *)
(* bounds of the model                                                 *)
(* ------------------------------------------------------------------ *)

\* total number of data bytes passed to exec over one compressor's life
MaxData == 3
\* largest size argument of ZlibDecompressorT::read
MaxPull == 2
\* flush calls made on one compressor
MaxFlush == 2
\* short counts one OutputStream returns
MaxShort == 1

\* template parameter maxBufSize, instantiated small (default 2048)
maxBufSize == 3

\* the byte values exec is called with
DataBytes == {7, 9}

(* ------------------------------------------------------------------ *)
(* sequences                                                           *)
(* ------------------------------------------------------------------ *)

Min(a, b) == IF a < b THEN a ELSE b

Take(s, n) == SubSeq(s, 1, Min(n, Len(s)))

Drop(s, n) == SubSeq(s, Min(n, Len(s)) + 1, Len(s))

IsPrefix(p, s) == Len(p) <= Len(s) /\ SubSeq(s, 1, Len(p)) = p

\* all sequences over S of length at most n
RECURSIVE SeqsUpTo(_, _)
SeqsUpTo(S, n) ==
  IF n = 0 THEN {<<>>}
  ELSE LET T == SeqsUpTo(S, n - 1)
       IN T \cup {Append(t, x) : t \in {u \in T : Len(u) = n - 1}, x \in S}

(* ------------------------------------------------------------------ *)
(* 32-bit words.  A word is <<hi, lo>>, two 16-bit halves.             *)
(* ------------------------------------------------------------------ *)

RECURSIVE Xor(_, _)
Xor(a, b) ==
  IF a = 0 THEN b
  ELSE IF b = 0 THEN a
  ELSE ((a + b) % 2) + 2 * Xor(a \div 2, b \div 2)

RECURSIVE And(_, _)
And(a, b) ==
  IF a = 0 \/ b = 0 THEN 0
  ELSE ((a % 2) * (b % 2)) + 2 * And(a \div 2, b \div 2)

Word0 == <<0, 0>>

Not32(w) == <<65535 - w[1], 65535 - w[2]>>

\* unsigned int += n, modulo 2^32  (0 <= n < 2^16 in the model)
Add32(w, n) ==
  LET lo == w[2] + n
      hi == w[1] + (lo \div 65536)
  IN <<hi % 65536, lo % 65536>>

\* one step of the reflected CRC-32 (polynomial EDB88320)
CrcShift(w) ==
  LET sh == <<w[1] \div 2, (w[2] \div 2) + (w[1] % 2) * 32768>>
  IN IF w[2] % 2 = 1 THEN <<Xor(sh[1], 60856), Xor(sh[2], 33568)>> ELSE sh

CrcByte(w, b) ==
  LET w0 == <<w[1], Xor(w[2], b)>>
  IN CrcShift(CrcShift(CrcShift(CrcShift(CrcShift(CrcShift(CrcShift(CrcShift(w0))))))))

RECURSIVE CrcFold(_, _)
CrcFold(w, s) == IF s = <<>> THEN w ELSE CrcFold(CrcByte(w, Head(s)), Tail(s))

\* zlib crc32(crc, buf, len); crc32(0L, Z_NULL, 0) is Word0
crc32(crc, s) == Not32(CrcFold(Not32(crc), s))

\* cybozu::Put32bitAsLE
Put32bitAsLE(w) == <<w[2] % 256, w[2] \div 256, w[1] % 256, w[1] \div 256>>

\* cybozu::Get16bitAsLE
Get16bitAsLE(s) == s[1] + 256 * s[2]

\* zlib adler32: <<b, a>> with a = 1 + sum, b = sum of the a's, both mod 65521
RECURSIVE AdlerFold(_, _)
AdlerFold(w, s) ==
  IF s = <<>> THEN w
  ELSE LET a == (w[2] + Head(s)) % 65521
       IN AdlerFold(<<(w[1] + a) % 65521, a>>, Tail(s))

Adler1 == <<0, 1>>

\* a word as 4 bytes, most significant first (the zlib stream trailer)
Put32bitAsBE(w) == <<w[1] \div 256, w[1] % 256, w[2] \div 256, w[2] % 256>>

(* ------------------------------------------------------------------ *)
(* the block engine, compression side (zlib deflate)                   *)
(*                                                                     *)
(* A DEFLATE body is abstracted to byte tokens: 1 b is the literal b,  *)
(* 2 b is b twice (a match), 0 ends the stream.  With wrap = 1 the     *)
(* body is zlib-wrapped: the header 78 9C before it and the Adler-32   *)
(* of the uncompressed data, most significant byte first, after it.    *)
(* ------------------------------------------------------------------ *)

\* the tokens of a run of input bytes
RECURSIVE Encode(_)
Encode(s) ==
  IF s = <<>> THEN <<>>
  ELSE IF Len(s) >= 2 /\ s[1] = s[2] THEN <<2, s[1]>> \o Encode(Drop(s, 2))
  ELSE <<1, s[1]>> \o Encode(Tail(s))

\* deflateInit (wrap = 1) and deflateInit2 with -MAX_WBITS (wrap = 0)
deflateInit(wrap) ==
  [status |-> "INIT", wrap |-> wrap, held |-> <<>>, pending |-> <<>>, adler |-> Adler1]

EngineResult(z, nin, out, ret) == [z |-> z, nin |-> nin, out |-> out, ret |-> ret]

\* deflate(&z_, flush) with next_in/avail_in = in and avail_out = availOut:
\* the set of results the engine may give.  The engine first hands out what
\* it still holds pending; it takes input into its window (held) and emits
\* blocks when it chooses to; it returns with all input taken or with the
\* output full.  Z_FINISH emits everything, the end token and the trailer.
deflate(z, in, availOut, flush) ==
  IF z.status = "FINISH" /\ flush # "Z_FINISH"
    THEN {EngineResult(z, 0, <<>>, "Z_STREAM_ERROR")}
  ELSE IF availOut = 0
    THEN {EngineResult(z, 0, <<>>, "Z_BUF_ERROR")}
  ELSE
    LET o1 == Take(z.pending, availOut)
        room1 == availOut - Len(o1)
    IN IF z.pending # <<>> /\ room1 = 0
         THEN {EngineResult([z EXCEPT !.pending = Drop(z.pending, availOut)], 0, o1, "Z_OK")}
       ELSE IF z.status = "FINISH" /\ in # <<>>
         THEN {EngineResult([z EXCEPT !.pending = <<>>], 0, o1, "Z_BUF_ERROR")}
       ELSE IF z.status = "FINISH"
         THEN {EngineResult([z EXCEPT !.pending = <<>>], 0, o1, "Z_STREAM_END")}
       ELSE IF in = <<>> /\ flush = "Z_NO_FLUSH" /\ z.pending = <<>> /\ z.status = "BUSY"
         THEN {EngineResult(z, 0, <<>>, "Z_BUF_ERROR")}
       ELSE
         LET hdr == IF z.status = "INIT" /\ z.wrap = 1 THEN <<120, 156>> ELSE <<>>
             Step(k, e) ==
               LET taken == Take(in, k)
                   held1 == z.held \o taken
                   adler1 == AdlerFold(z.adler, taken)
                   fin == flush = "Z_FINISH"
                   enc == IF fin
                            THEN Encode(held1) \o <<0>>
                                 \o (IF z.wrap = 1 THEN Put32bitAsBE(adler1) ELSE <<>>)
                            ELSE Encode(Take(held1, e))
                   pend == hdr \o enc
                   o2 == Take(pend, room1)
                   rest == Drop(pend, room1)
                   z1 == [status |-> IF fin THEN "FINISH" ELSE "BUSY",
                          wrap |-> z.wrap,
                          held |-> IF fin THEN <<>> ELSE Drop(held1, e),
                          pending |-> rest,
                          adler |-> adler1]
               IN EngineResult(z1, k, o1 \o o2,
                    IF fin /\ rest = <<>> /\ room1 - Len(o2) > 0
                      THEN "Z_STREAM_END" ELSE "Z_OK")
         IN {r \in {Step(k, e) : k \in 0..Len(in),
                                 e \in {0, Len(z.held) + Len(in)}} :
               /\ r.nin = Len(in) \/ Len(r.out) = availOut
               /\ flush = "Z_FINISH" => r.nin = Len(in)}

(* ------------------------------------------------------------------ *)
(* the block engine, decompression side (zlib inflate)                 *)
(* ------------------------------------------------------------------ *)

\* inflateInit (wrap = 1) and inflateInit2 with -MAX_WBITS (wrap = 0)
inflateInit(wrap) ==
  [mode |-> IF wrap = 1 THEN "HEAD" ELSE "BODY", wrap |-> wrap,
   hdr |-> <<>>, outq |-> <<>>, chk |-> <<>>, adler |-> Adler1]

\* the engine's work in one call: hand out what is decoded and waiting
\* while there is room, else decode the next input byte; stop when output
\* is waiting with no room, when the input is used up, at the end of the
\* stream or at an error
RECURSIVE inflateRun(_, _, _, _)
inflateRun(z, in, out, room) ==
  IF z.outq # <<>>
    THEN IF room = 0
           THEN [z |-> z, in |-> in, out |-> out]
           ELSE inflateRun([z EXCEPT !.outq = Tail(@),
                                     !.adler = AdlerFold(@, <<Head(z.outq)>>)],
                           in, Append(out, Head(z.outq)), room - 1)
  ELSE IF z.mode \in {"DONE", "BAD"} \/ in = <<>>
    THEN [z |-> z, in |-> in, out |-> out]
  ELSE
    LET b == Head(in)
        z1 == CASE z.mode = "HEAD" ->
                     LET h == Append(z.hdr, b)
                     IN IF Len(h) < 2 THEN [z EXCEPT !.hdr = h]
                        ELSE IF h[1] % 16 = 8 /\ (h[1] * 256 + h[2]) % 31 = 0
                          THEN [z EXCEPT !.hdr = h, !.mode = "BODY"]
                          ELSE [z EXCEPT !.hdr = h, !.mode = "BAD"]
                [] z.mode = "BODY" ->
                     [z EXCEPT !.mode = CASE b = 0 -> IF z.wrap = 1 THEN "CHECK" ELSE "DONE"
                                          [] b = 1 -> "LIT"
                                          [] b = 2 -> "RUN"
                                          [] OTHER -> "BAD"]
                [] z.mode = "LIT" -> [z EXCEPT !.mode = "BODY", !.outq = <<b>>]
                [] z.mode = "RUN" -> [z EXCEPT !.mode = "BODY", !.outq = <<b, b>>]
                [] z.mode = "CHECK" ->
                     LET c == Append(z.chk, b)
                     IN IF Len(c) < 4 THEN [z EXCEPT !.chk = c]
                        ELSE IF c = Put32bitAsBE(z.adler)
                          THEN [z EXCEPT !.chk = c, !.mode = "DONE"]
                          ELSE [z EXCEPT !.chk = c, !.mode = "BAD"]
    IN inflateRun(z1, Tail(in), out, room)

\* inflate(&z_, Z_NO_FLUSH) with next_in/avail_in = in and avail_out =
\* availOut: Z_STREAM_END at (and after) the end of the stream, Z_DATA_ERROR
\* on a bad stream, Z_BUF_ERROR when no progress was possible, else Z_OK
inflate(z, in, availOut) ==
  LET r == inflateRun(z, in, <<>>, availOut)
      nin == Len(in) - Len(r.in)
  IN EngineResult(r.z, nin, r.out,
       IF r.z.mode = "DONE" THEN "Z_STREAM_END"
       ELSE IF r.z.mode = "BAD" THEN "Z_DATA_ERROR"
       ELSE IF nin = 0 /\ r.out = <<>> THEN "Z_BUF_ERROR"
       ELSE "Z_OK")

(* ------------------------------------------------------------------ *)
(* state                                                               *)
(* ------------------------------------------------------------------ *)

VARIABLES
  os,       \* the OutputStream behind os_: the bytes it has accepted
  osShort,  \* how many short counts this OutputStream's write will still return
  comp,     \* the ZlibCompressorT object
  is,       \* the InputStream behind is_: the bytes it has not yet given
  isKind,   \* how this InputStream's read answers: "exact", "short", "stall"
  decomp,   \* the ZlibDecompressorT object
  op,       \* the last call made on either object, and what it did
  hist      \* history: what was passed in and what came out so far

vars == <<os, osShort, comp, is, isKind, decomp, op, hist>>

\* no compressor object (before construction, after destruction)
NoComp ==
  [life |-> "none", crc_ |-> Word0, totalSize_ |-> Word0, z_ |-> deflateInit(0),
   isFlushCalled_ |-> FALSE, useGzip_ |-> FALSE]

\* no decompressor object
NoDecomp ==
  [life |-> "none", crc_ |-> Word0, totalSize_ |-> Word0, z_ |-> inflateInit(0),
   in |-> <<>>, off |-> 0, ret_ |-> "Z_OK", useGzip_ |-> FALSE,
   readGzipHeader_ |-> FALSE]

\* what a call did: its name; the exception it threw ("ok" when none); the
\* data it was given (exec); the sizes of the os_.write requests it made;
\* the bytes the engine produced in it; the size it was given (read); the
\* bytes it returned (read); the is_.read calls it made, each <<"h" or "b"
\* (header, body), requested, returned>>; the bytes its header parsing took
\* from the stream; the counts os_.write returned, one for each request;
\* the number of bytes each deflate call produced; whether its last deflate
\* call returned Z_STREAM_END; its inflate calls, each <<bytes produced in
\* this read so far, value returned>>
Op(name, err, data, wr, eng) ==
  [name |-> name, err |-> err, data |-> data, wr |-> wr, eng |-> eng,
   size |-> 0, ret |-> <<>>, rd |-> <<>>, hdr |-> <<>>,
   acc |-> <<>>, prod |-> <<>>, end |-> FALSE, it |-> <<>>]

DOp(name, err, size, ret, rd, hdr) ==
  [name |-> name, err |-> err, data |-> <<>>, wr |-> <<>>, eng |-> <<>>,
   size |-> size, ret |-> ret, rd |-> rd, hdr |-> hdr,
   acc |-> <<>>, prod |-> <<>>, end |-> FALSE, it |-> <<>>]

(* ------------------------------------------------------------------ *)
(* ZlibCompressorT                                                     *)
(* ------------------------------------------------------------------ *)

\* the short counts os_.write(buf, size) is given to return: none of the
\* bytes taken, or all but the last
ShortCounts(size) == {n \in {0, size - 1} : 0 <= n /\ n < size}

\* write without the test of writeSize: a short count goes unnoticed
write_unchecked(o, s, short) ==
  {[os |-> o \o s, err |-> "ok"]}
  \cup (IF short
          THEN {[os |-> o \o Take(s, n), err |-> "ok"] : n \in ShortCounts(Len(s))}
          ELSE {})

\* ZlibCompressorT::write: os_.write(buf, size) takes all of s, or, when the
\* stream writes short, n < size bytes of it, and then write throws
write(o, s, short) ==
  {[os |-> o \o s, err |-> "ok"]}
  \cup (IF short
          THEN {[os |-> o \o Take(s, n), err |-> "write"] : n \in ShortCounts(Len(s))}
          ELSE {})

\* the gzip header the constructor writes
GzipHeader == <<31, 139, 8, 0, 0, 0, 0, 0, 0, 3>>

\* the running state of one call: engine, input left (next_in/avail_in),
\* the stream, the write requests and engine output so far, the exception,
\* the counts os_.write returned, the bytes each deflate call produced,
\* whether the last deflate call returned Z_STREAM_END
Run(z, in, o) ==
  [z |-> z, in |-> in, os |-> o, wr |-> <<>>, eng |-> <<>>, err |-> "ok",
   acc |-> <<>>, prod |-> <<>>, end |-> FALSE]

\* AfterDeflate with write(buf_, maxBufSize): all of buf_ is written, the
\* bytes produced and behind them what buf_ held (taken as zeros)
AfterDeflate_wholeBuffer(m, r, short, tag) ==
  LET m1 == [m EXCEPT !.z = r.z, !.in = Drop(m.in, r.nin),
                       !.prod = Append(m.prod, Len(r.out)),
                       !.end = (r.ret = "Z_STREAM_END")]
      all == r.out \o [i \in 1..(maxBufSize - Len(r.out)) |-> 0]
  IN IF r.ret # "Z_STREAM_END" /\ r.ret # "Z_OK"
       THEN {[m1 EXCEPT !.err = tag]}
       ELSE {[m1 EXCEPT !.os = w.os, !.err = w.err,
                        !.wr = Append(m.wr, Len(all)),
                        !.acc = Append(m.acc, Len(w.os) - Len(m.os)),
                        !.eng = m.eng \o r.out]
               : w \in write(m.os, all, short)}

\* one pass of a drain loop's body after deflate returned r: the status
\* test, then write(buf_, produced)
AfterDeflate(m, r, short, tag) ==
  LET m1 == [m EXCEPT !.z = r.z, !.in = Drop(m.in, r.nin),
                       !.prod = Append(m.prod, Len(r.out)),
                       !.end = (r.ret = "Z_STREAM_END")]
  IN IF r.ret # "Z_STREAM_END" /\ r.ret # "Z_OK"
       THEN {[m1 EXCEPT !.err = tag]}
       ELSE {[m1 EXCEPT !.os = w.os, !.err = w.err,
                        !.wr = Append(m.wr, Len(r.out)),
                        !.acc = Append(m.acc, Len(w.os) - Len(m.os)),
                        !.eng = m.eng \o r.out]
               : w \in write(m.os, r.out, short)}

\* execLoop with "if" for "while": one deflate call, whatever input is left
execLoop_once(m, short) ==
  IF m.in = <<>> THEN {m}
  ELSE UNION {AfterDeflate(m, r, short, "compress")
                : r \in deflate(m.z, m.in, maxBufSize, "Z_NO_FLUSH")}

\* the while loop of exec
RECURSIVE execLoop(_, _)
execLoop(m, short) ==
  IF m.in = <<>> THEN {m}
  ELSE UNION {
         UNION {IF n.err # "ok" THEN {n}
                ELSE IF r.ret = "Z_STREAM_END" THEN {n}
                ELSE execLoop(n, short)
                  : n \in AfterDeflate(m, r, short, "compress")}
           : r \in deflate(m.z, m.in, maxBufSize, "Z_NO_FLUSH")}

\* ZlibCompressorT::exec(buf, size)
exec(c, o, data, short) ==
  LET c1 == IF c.useGzip_
              THEN [c EXCEPT !.crc_ = crc32(c.crc_, data),
                             !.totalSize_ = Add32(c.totalSize_, Len(data))]
              ELSE c
  IN {[comp |-> [c1 EXCEPT !.z_ = m.z], os |-> m.os,
       op |-> [Op("exec", m.err, data, m.wr, m.eng)
                 EXCEPT !.acc = m.acc, !.prod = m.prod, !.end = m.end]]
        : m \in execLoop(Run(c1.z_, data, o), short)}

\* flushLoop without the loop: one deflate call, whatever the engine holds
flushLoop_once(m, short) ==
  UNION {AfterDeflate(m, r, short, "flush")
           : r \in deflate(m.z, <<>>, maxBufSize, "Z_FINISH")}

\* the for (;;) loop of flush
RECURSIVE flushLoop(_, _)
flushLoop(m, short) ==
  UNION {
    UNION {IF n.err # "ok" THEN {n}
           ELSE IF r.ret = "Z_STREAM_END" THEN {n}
           ELSE flushLoop(n, short)
             : n \in AfterDeflate(m, r, short, "flush")}
      : r \in deflate(m.z, <<>>, maxBufSize, "Z_FINISH")}

\* GzipTail with the two words in the other order
GzipTail_swapped(c) == Put32bitAsLE(c.totalSize_) \o Put32bitAsLE(c.crc_)

\* the gzip trailer of flush
GzipTail(c) == Put32bitAsLE(c.crc_) \o Put32bitAsLE(c.totalSize_)

\* ZlibCompressorT::flush()
flush(c, o, short) ==
  LET c1 == [c EXCEPT !.isFlushCalled_ = TRUE]
  IN UNION {
       IF m.err # "ok" \/ ~c1.useGzip_
         THEN {[comp |-> [c1 EXCEPT !.z_ = m.z], os |-> m.os,
                op |-> [Op("flush", m.err, <<>>, m.wr, m.eng)
                          EXCEPT !.acc = m.acc, !.prod = m.prod, !.end = m.end]]}
         ELSE {[comp |-> [c1 EXCEPT !.z_ = m.z], os |-> w.os,
                op |-> [Op("flush", w.err, <<>>, Append(m.wr, 8), m.eng)
                          EXCEPT !.acc = Append(m.acc, Len(w.os) - Len(m.os)),
                                 !.prod = m.prod, !.end = m.end]]
                 : w \in write(m.os, GzipTail(c1), short)}
         : m \in flushLoop(Run(c1.z_, <<>>, o), short)}

\* the constructor without its header write
ZlibCompressorT_lazy(o, useGzip, short) ==
  {[comp |-> [life |-> "live", crc_ |-> crc32(Word0, <<>>), totalSize_ |-> Word0,
              z_ |-> deflateInit(IF useGzip THEN 0 ELSE 1),
              isFlushCalled_ |-> FALSE, useGzip_ |-> useGzip],
    os |-> o, op |-> Op("ZlibCompressorT", "ok", <<>>, <<>>, <<>>)]}

\* ZlibCompressorT::ZlibCompressorT(os, useGzip): the object is "live" when
\* the constructor returns and "unbuilt" when it throws, and then no
\* destructor runs
ZlibCompressorT(o, useGzip, short) ==
  LET c == [life |-> "live", crc_ |-> crc32(Word0, <<>>), totalSize_ |-> Word0,
            z_ |-> deflateInit(IF useGzip THEN 0 ELSE 1),
            isFlushCalled_ |-> FALSE, useGzip_ |-> useGzip]
  IN IF useGzip
       THEN {[comp |-> [c EXCEPT !.life = IF w.err = "ok" THEN "live" ELSE "unbuilt"],
              os |-> w.os,
              op |-> [Op("ZlibCompressorT", w.err, <<>>, <<10>>, <<>>)
                        EXCEPT !.acc = <<Len(w.os) - Len(o)>>]]
               : w \in write(o, GzipHeader, short)}
       ELSE {[comp |-> c, os |-> o, op |-> Op("ZlibCompressorT", "ok", <<>>, <<>>, <<>>)]}


\* ZlibCompressorT::~ZlibCompressorT: assert(isFlushCalled_) aborts the
\* process in a build with assertions and is nothing with NDEBUG; then
\* deflateEnd.  The set of lives the object may end in.
DestroyCompressorT(c) ==
  IF c.isFlushCalled_ THEN {"dead"} ELSE {"aborted", "dead"}

(* ------------------------------------------------------------------ *)
(* ZlibDecompressorT                                                   *)
(* ------------------------------------------------------------------ *)

\* the counts is_.read(buf, n) may return with avail bytes left in the stream
ReadCounts(kind, n, avail) ==
  LET m == Min(n, avail)
  IN CASE kind = "exact" -> {m}
       [] kind = "short" -> IF m = 0 THEN {0} ELSE 1..m
       [] kind = "stall" -> 0..m

\* the running state of header parsing: the stream, the exception, the
\* reads made, the bytes taken, the bytes of the last read
Parse(s) == [is |-> s, err |-> "ok", rd |-> <<>>, hdr |-> <<>>, got |-> <<>>]

\* run F on every state of S that has not thrown
Bind(S, F(_)) == UNION {IF h.err = "ok" THEN F(h) ELSE {h} : h \in S}

\* ZlibDecompressorT::readAll
readAll(h, size, kind) ==
  {[is |-> Drop(h.is, k),
    err |-> IF k # size THEN "readAll" ELSE "ok",
    rd |-> Append(h.rd, <<"h", size, k>>),
    hdr |-> h.hdr \o Take(h.is, k),
    got |-> Take(h.is, k)] : k \in ReadCounts(kind, size, Len(h.is))}

\* ZlibDecompressorT::skipToZero
RECURSIVE skipToZero(_, _)
skipToZero(h, kind) ==
  UNION {IF r.err # "ok" THEN {r}
         ELSE IF r.got[1] = 0 THEN {r}
         ELSE skipToZero(r, kind) : r \in readAll(h, 1, kind)}

\* skip with "i <= size" for "i < size": one byte too many
RECURSIVE skip_more(_, _, _)
skip_more(h, size, kind) ==
  IF size < 0 THEN {h}
  ELSE UNION {IF r.err # "ok" THEN {r} ELSE skip_more(r, size - 1, kind)
                : r \in readAll(h, 1, kind)}

\* ZlibDecompressorT::skip
RECURSIVE skip(_, _, _)
skip(h, size, kind) ==
  IF size <= 0 THEN {h}
  ELSE UNION {IF r.err # "ok" THEN {r} ELSE skip(r, size - 1, kind)
                : r \in readAll(h, 1, kind)}

\* readGzipHeader without the test of the reserved flag bits
readGzipHeader_noReserved(h0, kind) ==
  UNION {
    IF a.err # "ok" THEN {a}
    ELSE
      LET header == a.got
          flg == header[4]
      IN IF header[1] = 31 /\ header[2] = 139 /\ header[3] = 8
           THEN
             LET extra == IF And(flg, 4) # 0
                            THEN Bind(readAll(a, 2, kind),
                                      LAMBDA x : skip(x, Get16bitAsLE(x.got), kind))
                            ELSE {a}
                 name == Bind(extra, LAMBDA x : IF And(flg, 8) # 0
                                                  THEN skipToZero(x, kind) ELSE {x})
                 comment == Bind(name, LAMBDA x : IF And(flg, 16) # 0
                                                    THEN skipToZero(x, kind) ELSE {x})
             IN Bind(comment, LAMBDA x : IF And(flg, 2) # 0
                                           THEN skip(x, 2, kind) ELSE {x})
           ELSE {[a EXCEPT !.err = "bad gzip header"]}
      : a \in readAll(h0, 10, kind)}

\* ZlibDecompressorT::readGzipHeader
readGzipHeader(h0, kind) ==
  UNION {
    IF a.err # "ok" THEN {a}
    ELSE
      LET header == a.got
          flg == header[4]
      IN IF /\ header[1] = 31
            /\ header[2] = 139
            /\ header[3] = 8
            /\ And(flg, 224) = 0
           THEN
             LET extra == IF And(flg, 4) # 0
                            THEN Bind(readAll(a, 2, kind),
                                      LAMBDA x : skip(x, Get16bitAsLE(x.got), kind))
                            ELSE {a}
                 name == Bind(extra, LAMBDA x : IF And(flg, 8) # 0
                                                  THEN skipToZero(x, kind) ELSE {x})
                 comment == Bind(name, LAMBDA x : IF And(flg, 16) # 0
                                                    THEN skipToZero(x, kind) ELSE {x})
             IN Bind(comment, LAMBDA x : IF And(flg, 2) # 0
                                           THEN skip(x, 2, kind) ELSE {x})
           ELSE {[a EXCEPT !.err = "bad gzip header"]}
      : a \in readAll(h0, 10, kind)}

\* std::string(z_.msg) with z_.msg null is undefined: the builds throw
\* std::logic_error or crash.  inflate sets msg on Z_DATA_ERROR only.
ThrowDecompress(ret) ==
  IF ret = "Z_DATA_ERROR" THEN {"decompress"} ELSE {"logic_error", "crash"}

\* readLoop with "if" for "do-while": one inflate call, output or not
readLoop_once(b, size, kind) ==
  LET filled ==
        IF b.in = <<>>
          THEN {[b EXCEPT !.in = Take(b.is, k),
                          !.is = Drop(b.is, k),
                          !.rd = Append(b.rd, <<"b", maxBufSize, k>>),
                          !.off = IF b.ret_ = "Z_STREAM_END" /\ k = 0 THEN @ ELSE 0,
                          !.early = (b.ret_ = "Z_STREAM_END" /\ k = 0)]
                  : k \in ReadCounts(kind, maxBufSize, Len(b.is))}
          ELSE {b}
  IN UNION {
       IF f.early THEN {f}
       ELSE
         LET r == inflate(f.z, f.in, size - Len(f.out))
             g == [f EXCEPT !.z = r.z, !.in = Drop(f.in, r.nin),
                            !.off = @ + r.nin,
                            !.out = f.out \o r.out, !.ret_ = r.ret,
                            !.it = Append(@, <<Len(f.out) + Len(r.out), r.ret>>)]
         IN IF r.ret = "Z_STREAM_END" THEN {g}
            ELSE IF r.ret # "Z_OK"
              THEN {[g EXCEPT !.err = e] : e \in ThrowDecompress(r.ret)}
            ELSE {g}
         : f \in filled}

\* readLoop without the break on Z_STREAM_END: the end is thrown as an error
RECURSIVE readLoop_endThrows(_, _, _)
readLoop_endThrows(b, size, kind) ==
  LET filled ==
        IF b.in = <<>>
          THEN {[b EXCEPT !.in = Take(b.is, k),
                          !.is = Drop(b.is, k),
                          !.rd = Append(b.rd, <<"b", maxBufSize, k>>),
                          !.off = IF b.ret_ = "Z_STREAM_END" /\ k = 0 THEN @ ELSE 0,
                          !.early = (b.ret_ = "Z_STREAM_END" /\ k = 0)]
                  : k \in ReadCounts(kind, maxBufSize, Len(b.is))}
          ELSE {b}
  IN UNION {
       IF f.early THEN {f}
       ELSE
         LET r == inflate(f.z, f.in, size - Len(f.out))
             g == [f EXCEPT !.z = r.z, !.in = Drop(f.in, r.nin),
                            !.off = @ + r.nin,
                            !.out = f.out \o r.out, !.ret_ = r.ret,
                            !.it = Append(@, <<Len(f.out) + Len(r.out), r.ret>>)]
         IN IF r.ret # "Z_OK"
              THEN {[g EXCEPT !.err = "decompress"]}
            ELSE IF size = size - Len(g.out) THEN readLoop_endThrows(g, size, kind)
            ELSE {g}
         : f \in filled}

\* readLoop with "while (z_.avail_out > 0)": it goes on until buf is full
RECURSIVE readLoop_untilFull(_, _, _)
readLoop_untilFull(b, size, kind) ==
  LET filled ==
        IF b.in = <<>>
          THEN {[b EXCEPT !.in = Take(b.is, k),
                          !.is = Drop(b.is, k),
                          !.rd = Append(b.rd, <<"b", maxBufSize, k>>),
                          !.off = IF b.ret_ = "Z_STREAM_END" /\ k = 0 THEN @ ELSE 0,
                          !.early = (b.ret_ = "Z_STREAM_END" /\ k = 0)]
                  : k \in ReadCounts(kind, maxBufSize, Len(b.is))}
          ELSE {b}
  IN UNION {
       IF f.early THEN {f}
       ELSE
         LET r == inflate(f.z, f.in, size - Len(f.out))
             g == [f EXCEPT !.z = r.z, !.in = Drop(f.in, r.nin),
                            !.off = @ + r.nin,
                            !.out = f.out \o r.out, !.ret_ = r.ret,
                            !.it = Append(@, <<Len(f.out) + Len(r.out), r.ret>>)]
         IN IF r.ret = "Z_STREAM_END" THEN {g}
            ELSE IF r.ret # "Z_OK"
              THEN {[g EXCEPT !.err = e] : e \in ThrowDecompress(r.ret)}
            ELSE IF size - Len(g.out) > 0 THEN readLoop_untilFull(g, size, kind)
            ELSE {g}
         : f \in filled}

\* the do-while loop of read, over its running state: engine, buffered input
\* (next_in/avail_in, with off = next_in - buf_), stream, output so far,
\* ret_, exception, reads made, whether it returned 0 at the test of ret_
\* after a read of nothing, and the inflate calls made
RECURSIVE readLoop(_, _, _)
readLoop(b, size, kind) ==
  LET filled ==
        IF b.in = <<>>
          THEN {[b EXCEPT !.in = Take(b.is, k),
                          !.is = Drop(b.is, k),
                          !.rd = Append(b.rd, <<"b", maxBufSize, k>>),
                          !.off = IF b.ret_ = "Z_STREAM_END" /\ k = 0 THEN @ ELSE 0,
                          !.early = (b.ret_ = "Z_STREAM_END" /\ k = 0)]
                  : k \in ReadCounts(kind, maxBufSize, Len(b.is))}
          ELSE {b}
  IN UNION {
       IF f.early THEN {f}
       ELSE
         LET r == inflate(f.z, f.in, size - Len(f.out))
             g == [f EXCEPT !.z = r.z, !.in = Drop(f.in, r.nin),
                            !.off = @ + r.nin,
                            !.out = f.out \o r.out, !.ret_ = r.ret,
                            !.it = Append(@, <<Len(f.out) + Len(r.out), r.ret>>)]
         IN IF r.ret = "Z_STREAM_END" THEN {g}
            ELSE IF r.ret # "Z_OK"
              THEN {[g EXCEPT !.err = e] : e \in ThrowDecompress(r.ret)}
            ELSE IF size = size - Len(g.out) THEN readLoop(g, size, kind)
            ELSE {g}
         : f \in filled}

\* read without "if (size == 0) return 0"
read_noZeroTest(d, s, size, kind) ==
  LET heads == IF d.useGzip_ /\ ~d.readGzipHeader_
                 THEN readGzipHeader(Parse(s), kind)
                 ELSE {Parse(s)}
  IN UNION {
       IF h.err # "ok"
         THEN {[decomp |-> d, is |-> h.is,
                op |-> DOp("read", h.err, size, <<>>, h.rd, h.hdr)]}
         ELSE
           LET d1 == IF d.useGzip_ /\ ~d.readGzipHeader_
                       THEN [d EXCEPT !.readGzipHeader_ = TRUE] ELSE d
               b0 == [z |-> d1.z_, in |-> d1.in, off |-> d1.off, is |-> h.is,
                      out |-> <<>>, ret_ |-> d1.ret_, err |-> "ok", rd |-> h.rd,
                      early |-> FALSE, it |-> <<>>]
           IN {[decomp |-> [d1 EXCEPT !.z_ = b.z, !.in = b.in, !.off = b.off,
                                      !.ret_ = b.ret_,
                                      !.life = IF b.err = "crash" THEN "crashed" ELSE @],
                is |-> b.is,
                op |-> [DOp("read", b.err, size,
                            IF b.err = "ok" /\ ~b.early THEN b.out ELSE <<>>,
                            b.rd, h.hdr) EXCEPT !.it = b.it]]
                 : b \in readLoop(b0, size, kind)}
       : h \in heads}

\* read with the gzip trailer checked: crc_ and totalSize_ are kept over the
\* bytes returned and compared, when the engine signals the end, with the 8
\* bytes that follow the body
read_checksTrailer(d, s, size, kind) ==
  IF size = 0 THEN {[decomp |-> d, is |-> s, op |-> DOp("read", "ok", 0, <<>>, <<>>, <<>>)]}
  ELSE
    LET heads == IF d.useGzip_ /\ ~d.readGzipHeader_
                   THEN readGzipHeader(Parse(s), kind)
                   ELSE {Parse(s)}
    IN UNION {
         IF h.err # "ok"
           THEN {[decomp |-> d, is |-> h.is,
                  op |-> DOp("read", h.err, size, <<>>, h.rd, h.hdr)]}
           ELSE
             LET d1 == IF d.useGzip_ /\ ~d.readGzipHeader_
                         THEN [d EXCEPT !.readGzipHeader_ = TRUE] ELSE d
                 b0 == [z |-> d1.z_, in |-> d1.in, off |-> d1.off, is |-> h.is,
                        out |-> <<>>, ret_ |-> d1.ret_, err |-> "ok", rd |-> h.rd,
                        early |-> FALSE, it |-> <<>>]
             IN {LET crc == crc32(d1.crc_, b.out)
                     total == Add32(d1.totalSize_, Len(b.out))
                     bad == /\ d1.useGzip_ /\ b.err = "ok"
                            /\ b.ret_ = "Z_STREAM_END" /\ d1.ret_ # "Z_STREAM_END"
                            /\ Take(b.in \o b.is, 8)
                                 # Put32bitAsLE(crc) \o Put32bitAsLE(total)
                     err == IF bad THEN "decompress" ELSE b.err
                 IN [decomp |-> [d1 EXCEPT !.z_ = b.z, !.in = b.in, !.off = b.off,
                                           !.ret_ = b.ret_,
                                           !.crc_ = crc, !.totalSize_ = total,
                                           !.life = IF b.err = "crash" THEN "crashed" ELSE @],
                     is |-> b.is,
                     op |-> [DOp("read", err, size,
                                 IF err = "ok" /\ ~b.early THEN b.out ELSE <<>>,
                                 b.rd, h.hdr) EXCEPT !.it = b.it]]
                   : b \in readLoop(b0, size, kind)}
         : h \in heads}

\* ZlibDecompressorT::read(buf, size)
read(d, s, size, kind) ==
  IF size = 0 THEN {[decomp |-> d, is |-> s, op |-> DOp("read", "ok", 0, <<>>, <<>>, <<>>)]}
  ELSE
    LET heads == IF d.useGzip_ /\ ~d.readGzipHeader_
                   THEN readGzipHeader(Parse(s), kind)
                   ELSE {Parse(s)}
    IN UNION {
         IF h.err # "ok"
           THEN {[decomp |-> d, is |-> h.is,
                  op |-> DOp("read", h.err, size, <<>>, h.rd, h.hdr)]}
           ELSE
             LET d1 == IF d.useGzip_ /\ ~d.readGzipHeader_
                         THEN [d EXCEPT !.readGzipHeader_ = TRUE] ELSE d
                 b0 == [z |-> d1.z_, in |-> d1.in, off |-> d1.off, is |-> h.is,
                        out |-> <<>>, ret_ |-> d1.ret_, err |-> "ok", rd |-> h.rd,
                        early |-> FALSE, it |-> <<>>]
             IN {[decomp |-> [d1 EXCEPT !.z_ = b.z, !.in = b.in, !.off = b.off,
                                        !.ret_ = b.ret_,
                                        !.life = IF b.err = "crash" THEN "crashed" ELSE @],
                  is |-> b.is,
                  op |-> [DOp("read", b.err, size,
                              IF b.err = "ok" /\ ~b.early THEN b.out ELSE <<>>,
                              b.rd, h.hdr) EXCEPT !.it = b.it]]
                   : b \in readLoop(b0, size, kind)}
         : h \in heads}

\* ZlibDecompressorT::ZlibDecompressorT(is, useGzip)
ZlibDecompressorT(useGzip) ==
  [life |-> "live", crc_ |-> crc32(Word0, <<>>), totalSize_ |-> Word0,
   z_ |-> inflateInit(IF useGzip THEN 0 ELSE 1),
   in |-> <<>>, off |-> 0, ret_ |-> "Z_OK", useGzip_ |-> useGzip,
   readGzipHeader_ |-> FALSE]

(* ------------------------------------------------------------------ *)
(* the streams a decompressor is given that no compressor wrote        *)
(* ------------------------------------------------------------------ *)

\* a gzip member with flags flg and first bytes m: its optional fields, the
\* body of the one byte 7, the trailer
Member(m, flg) ==
  m \o <<flg, 0, 0, 0, 0, 0, 3>>
    \o (IF And(flg, 4) # 0 THEN <<1, 0, 5>> ELSE <<>>)
    \o (IF And(flg, 8) # 0 THEN <<65, 0>> ELSE <<>>)
    \o (IF And(flg, 16) # 0 THEN <<66, 0>> ELSE <<>>)
    \o (IF And(flg, 2) # 0 THEN <<1, 2>> ELSE <<>>)
    \o <<1, 7, 0>>
    \o Put32bitAsLE(crc32(Word0, <<7>>)) \o Put32bitAsLE(<<0, 1>>)

\* a gzip member whose trailer is not the CRC-32 and length of its data
WrongTrailer ==
  Take(Member(<<31, 139, 8>>, 0), 13) \o <<1, 2, 3, 4, 5, 0, 0, 0>>

GivenStreams ==
  {Member(<<31, 139, 8>>, f) : f \in {0, 1, 2, 4, 8, 16, 30, 32, 64, 128}}
  \cup {WrongTrailer}
  \cup {Member(m, 0) : m \in {<<31, 139, 7>>, <<31, 138, 8>>, <<30, 139, 8>>}}
  \cup {Take(Member(<<31, 139, 8>>, 8), 11), Take(Member(<<30, 139, 8>>, 0), 4),
        Take(Member(<<31, 139, 8>>, 0), 12), <<>>}

(* ------------------------------------------------------------------ *)
(* the state machine                                                   *)
(* ------------------------------------------------------------------ *)

\* passed: all data passed to exec, in order; nFlush: the flush calls made;
\* cOk: no compressor call has thrown; late: an exec call came after a
\* flush call; gz: the compressor's mode; deflateEnds, inflateEnds: the
\* deflateEnd / inflateEnd calls made; isAll: the stream the decompressor
\* was built on; outAll: all bytes read has returned, in order; dOk: no
\* decompressor call has thrown; pulls: the read calls with size > 0 made
\* (0, 1, or 2 for more); post: a read call with size > 0 was made after
\* the engine had returned Z_STREAM_END; hdrFail: a read call has thrown
\* out of readGzipHeader
NoHist ==
  [passed |-> <<>>, nFlush |-> 0, cOk |-> TRUE, late |-> FALSE, gz |-> FALSE,
   deflateEnds |-> 0, inflateEnds |-> 0, isAll |-> <<>>, outAll |-> <<>>,
   dOk |-> TRUE, pulls |-> 0, post |-> FALSE, hdrFail |-> FALSE]

Init ==
  /\ os = <<>>
  /\ osShort \in 0..MaxShort
  /\ comp = NoComp
  /\ is = <<>>
  /\ isKind = "exact"
  /\ decomp = NoDecomp
  /\ op = Op("none", "ok", <<>>, <<>>, <<>>)
  /\ hist = NoHist

\* what a compressor call leaves behind
CompStep(r, h) ==
  /\ comp' = r.comp
  /\ os' = r.os
  /\ op' = r.op
  /\ osShort' = IF r.op.err = "write" THEN osShort - 1 ELSE osShort
  /\ hist' = [h EXCEPT !.cOk = @ /\ r.op.err = "ok"]
  /\ UNCHANGED <<is, isKind, decomp>>

NewCompressor ==
  /\ comp.life = "none"
  /\ decomp.life = "none"
  /\ \E g \in BOOLEAN : \E r \in ZlibCompressorT(os, g, osShort > 0) :
       CompStep(r, [hist EXCEPT !.gz = g])

Exec ==
  /\ comp.life = "live"
  /\ \E data \in SeqsUpTo(DataBytes, MaxData - Len(hist.passed)) :
       \E r \in exec(comp, os, data, osShort > 0) :
         CompStep(r, [hist EXCEPT !.passed = @ \o data, !.late = @ \/ hist.nFlush > 0])

Flush ==
  /\ comp.life = "live"
  /\ hist.nFlush < MaxFlush
  /\ \E r \in flush(comp, os, osShort > 0) :
       CompStep(r, [hist EXCEPT !.nFlush = @ + 1])

DestroyCompressor ==
  /\ comp.life = "live"
  /\ \E l \in DestroyCompressorT(comp) :
       /\ comp' = [NoComp EXCEPT !.life = l]
       /\ hist' = [hist EXCEPT !.deflateEnds = IF l = "dead" THEN @ + 1 ELSE @]
  /\ op' = Op("~ZlibCompressorT", "ok", <<>>, <<>>, <<>>)
  /\ UNCHANGED <<os, osShort, is, isKind, decomp>>

\* a decompressor of the compressor's mode over the bytes the sink received
\* from a compressor that was fed, flushed once and destroyed, no call failing
NewDecompressorOnSink ==
  /\ comp.life = "dead"
  /\ hist.cOk /\ hist.nFlush = 1 /\ ~hist.late
  /\ decomp.life = "none"
  /\ decomp' = ZlibDecompressorT(hist.gz)
  /\ is' = os
  /\ isKind' \in {"exact", "short", "stall"}
  /\ hist' = [hist EXCEPT !.isAll = os]
  /\ op' = DOp("ZlibDecompressorT", "ok", 0, <<>>, <<>>, <<>>)
  /\ UNCHANGED <<os, osShort, comp>>

\* a decompressor over a stream from elsewhere
NewDecompressorGiven ==
  /\ comp.life = "none"
  /\ decomp.life = "none"
  /\ \E s \in GivenStreams, g \in BOOLEAN :
       /\ decomp' = ZlibDecompressorT(g)
       /\ is' = s
       /\ hist' = [hist EXCEPT !.isAll = s]
  /\ isKind' \in {"exact", "short", "stall"}
  /\ op' = DOp("ZlibDecompressorT", "ok", 0, <<>>, <<>>, <<>>)
  /\ UNCHANGED <<os, osShort, comp>>

Read ==
  /\ decomp.life = "live"
  /\ \E size \in 0..MaxPull : \E r \in read(decomp, is, size, isKind) :
       /\ decomp' = r.decomp
       /\ is' = r.is
       /\ op' = r.op
       /\ hist' = [hist EXCEPT
                     !.outAll = @ \o r.op.ret,
                     !.dOk = @ /\ r.op.err = "ok",
                     !.hdrFail = @ \/ r.op.err \in {"readAll", "bad gzip header"},
                     !.pulls = IF size > 0 THEN Min(@ + 1, 2) ELSE @,
                     !.post = @ \/ (size > 0 /\ decomp.ret_ = "Z_STREAM_END")]
  /\ UNCHANGED <<os, osShort, comp, isKind>>

\* ZlibDecompressorT::~ZlibDecompressorT
DestroyDecompressor ==
  /\ decomp.life = "live"
  /\ decomp' = [NoDecomp EXCEPT !.life = "dead"]
  /\ hist' = [hist EXCEPT !.inflateEnds = @ + 1]
  /\ op' = DOp("~ZlibDecompressorT", "ok", 0, <<>>, <<>>, <<>>)
  /\ UNCHANGED <<os, osShort, comp, is, isKind>>

Next ==
  \/ NewCompressor
  \/ Exec
  \/ Flush
  \/ DestroyCompressor
  \/ NewDecompressorOnSink
  \/ NewDecompressorGiven
  \/ Read
  \/ DestroyDecompressor

Spec == Init /\ [][Next]_vars

(* ------------------------------------------------------------------ *)
(* what the claims speak of                                            *)
(* ------------------------------------------------------------------ *)

\* the compressor was fed and then flushed once, and no call of it failed
CleanFinish == hist.cOk /\ hist.nFlush = 1 /\ ~hist.late

\* the decompressor stands on the bytes the sink received from a compressor
OnSink == comp.life = "dead" /\ decomp.life # "none"

\* the last call was a read with size > 0 that returned zero bytes
PullReturnedZero ==
  op.name = "read" /\ op.size > 0 /\ op.err = "ok" /\ op.ret = <<>>

\* the whole stream s decoded in one engine call with room for everything;
\* a gzip member's header is skipped by its length n
DecodeAll(gz, s, n) ==
  IF gz THEN inflate(inflateInit(0), Drop(s, n), Len(s) + 1)
        ELSE inflate(inflateInit(1), s, Len(s) + 1)

(* C1  Round trip: data fed to a compressor and finished, then pulled    *)
(* from a decompressor of the same mode over the sink's bytes until a    *)
(* pull returns 0, comes out unchanged, in both modes: no pull fails,    *)
(* what has come out is always a prefix of what went in, and once a pull *)
(* returns 0 or the engine has signalled the end it is all of it.        *)
RoundTrip ==
  (OnSink /\ isKind = "exact") =>
    /\ hist.dOk
    /\ IsPrefix(hist.outAll, hist.passed)
    /\ (PullReturnedZero \/ decomp.ret_ = "Z_STREAM_END") => hist.outAll = hist.passed

\* C1's case: three bytes went in, came out, and the next pull returned 0
RoundTripWitness ==
  /\ OnSink /\ isKind = "exact" /\ hist.gz
  /\ Len(hist.passed) = 3 /\ hist.outAll = hist.passed
  /\ PullReturnedZero

(* C2  Chunking invariance: however the data is split over exec calls    *)
(* (one call, one byte per call, empty pieces), the bytes in the sink    *)
(* after flush decode to the concatenation of the pieces.                *)
ChunkingInvariance ==
  (comp.life = "live" /\ CleanFinish) =>
    LET r == DecodeAll(comp.useGzip_, os, 10)
    IN /\ comp.useGzip_ => Take(os, 10) = <<31, 139, 8, 0, 0, 0, 0, 0, 0, 3>>
       /\ r.ret = "Z_STREAM_END"
       /\ r.out = hist.passed

\* C2's case: the same data, fed in pieces, left a different stream in the
\* sink than one exec call leaves (two literals where one call gives a match)
ChunkingWitness ==
  /\ comp.life = "live" /\ CleanFinish /\ comp.useGzip_
  /\ hist.passed = <<7, 7, 9>>
  /\ op.name = "flush"
  /\ SubSeq(os, 11, Len(os) - 8) = <<1, 7, 1, 7, 1, 9, 0>>

\* the index of the first zero byte of s at or after i, 0 when there is none
RECURSIVE ZeroAt(_, _)
ZeroAt(s, i) ==
  IF i > Len(s) THEN 0 ELSE IF s[i] = 0 THEN i ELSE ZeroAt(s, i + 1)

\* s begins with other bytes than 1F 8B 08, or its flags byte has a
\* reserved bit (bits 5-7) set
BadStart(s) ==
  /\ s # <<>>
  /\ \/ Take(s, 3) # <<31, 139, 8>>
     \/ Len(s) >= 4 /\ (s[4] \div 32) % 8 # 0

\* the length of the gzip header that s starts with, by the format: the 10
\* fixed bytes, then as the flags byte says and in this order the extra field
\* (2-byte little-endian length, that many bytes), the zero-terminated name,
\* the zero-terminated comment, the 2-byte header CRC; 0 when s does not
\* start with a whole well-formed header
GzipHeaderLen(s) ==
  IF Len(s) < 10 \/ BadStart(s) THEN 0
  ELSE
    LET has(bit) == (s[4] \div bit) % 2 = 1
        p1 == IF ~has(4) THEN 10
              ELSE IF Len(s) < 12 THEN 0
              ELSE 12 + s[11] + 256 * s[12]
        p2 == IF p1 = 0 \/ p1 > Len(s) THEN 0
              ELSE IF has(8) THEN ZeroAt(s, p1 + 1) ELSE p1
        p3 == IF p2 = 0 THEN 0
              ELSE IF has(16) THEN ZeroAt(s, p2 + 1) ELSE p2
        p4 == IF p3 = 0 THEN 0
              ELSE IF has(2) THEN p3 + 2 ELSE p3
    IN IF p4 > Len(s) THEN 0 ELSE p4

\* the stream the decompressor was built on is a whole valid stream of its mode
ValidStream ==
  /\ decomp.life # "none"
  /\ decomp.useGzip_ => GzipHeaderLen(hist.isAll) > 0
  /\ DecodeAll(decomp.useGzip_, hist.isAll, GzipHeaderLen(hist.isAll)).ret = "Z_STREAM_END"

\* what that stream holds
StreamData == DecodeAll(decomp.useGzip_, hist.isAll, GzipHeaderLen(hist.isAll)).out

\* the stream's reads return at least one byte while bytes are left
SplitsOnly == isKind \in {"exact", "short"}

(* C3 (as claimed)  Pull-size invariance: on a valid stream the pulls up  *)
(* to end-of-stream give the same bytes for every choice of max_len > 0  *)
(* and every way the source splits its data into short reads: no pull    *)
(* fails, and a pull returns 0 only when all the data has come out.      *)
PullSizeInvariance ==
  (ValidStream /\ SplitsOnly) =>
    /\ hist.dOk
    /\ IsPrefix(hist.outAll, StreamData)
    /\ PullReturnedZero => hist.outAll = StreamData

(* C3 (amended)  The same, provided that in gzip mode no read made while *)
(* the header is parsed is short: the body may be split in any way.       *)
PullSizeInvarianceBody ==
  (ValidStream /\ SplitsOnly /\ ~hist.hdrFail) =>
    /\ hist.dOk
    /\ IsPrefix(hist.outAll, StreamData)
    /\ (PullReturnedZero \/ decomp.ret_ = "Z_STREAM_END") => hist.outAll = StreamData

\* C3's case: a stream of three bytes pulled to its end over short body reads
PullSizeWitness ==
  /\ ValidStream /\ isKind = "short" /\ ~hist.hdrFail
  /\ Len(StreamData) = 3 /\ hist.outAll = StreamData
  /\ PullReturnedZero
  /\ \E i \in DOMAIN op.rd : op.rd[i][1] = "b" /\ op.rd[i][3] \in 1..(maxBufSize - 1)

(* C4  Post-end idempotence: once the engine has signalled logical end,   *)
(* every later read call returns zero bytes and throws nothing, whatever *)
(* size it is given and whether or not bytes are left in the source.      *)
PostEndIdempotence ==
  [][(decomp.life = "live" /\ decomp.ret_ = "Z_STREAM_END" /\ op'.name = "read")
       => (op'.ret = <<>> /\ op'.err = "ok" /\ decomp'.ret_ = "Z_STREAM_END")]_vars

\* C4's case: a pull made after the end, with the gzip trailer still buffered
PostEndWitness ==
  /\ hist.post /\ decomp.useGzip_
  /\ op.name = "read" /\ op.size > 0 /\ op.ret = <<>> /\ op.err = "ok"
  /\ decomp.in # <<>>

\* the last call was the first read call with size > 0 of a gzip decompressor
FirstGzipPull ==
  /\ decomp.life # "none" /\ decomp.useGzip_
  /\ hist.pulls = 1 /\ op.name = "read" /\ op.size > 0

(* C5 (as claimed)  Gzip header rejection: in gzip mode the first pull on *)
(* a stream that begins with other bytes than 1F 8B 08, or with a reserved *)
(* flag bit set, fails with the bad-gzip-header error and returns no data. *)
GzipHeaderRejection ==
  (FirstGzipPull /\ BadStart(hist.isAll)) =>
    (op.err = "bad gzip header" /\ op.ret = <<>>)

(* C5 (amended)  That holds when the read of the 10 fixed bytes returns   *)
(* all 10; when it returns fewer the pull fails with the truncated-header *)
(* error instead.  Either way nothing more is read and no data returned.  *)
GzipHeaderRejectionFullRead ==
  (FirstGzipPull /\ BadStart(hist.isAll)) =>
    /\ op.rd = <<<<"h", 10, Len(op.hdr)>>>>
    /\ op.ret = <<>>
    /\ ~decomp.readGzipHeader_
    /\ op.err = IF Len(op.hdr) = 10 THEN "bad gzip header" ELSE "readAll"

\* C5's case: a header with a reserved flag bit, read in full and rejected
GzipHeaderRejectionWitness ==
  /\ FirstGzipPull /\ Take(hist.isAll, 4) = <<31, 139, 8, 64>>
  /\ op.err = "bad gzip header" /\ Len(op.hdr) = 10

\* a read made while the header is parsed that returned less than requested
ShortHeaderRead(e) == e[1] = "h" /\ e[3] < e[2]

(* C6  Truncated header: a read made while the gzip header is parsed that *)
(* returns less than requested (zero included) makes the pull fail at once *)
(* with the truncated-header error, and nothing else gives that error; the *)
(* parse takes the 10 fixed bytes and then, each only if its flag is set,  *)
(* the extra field, the name, the comment and the header CRC, in this      *)
(* order, and never a byte beyond the header.                              *)
TruncatedHeader ==
  (decomp.life # "none" /\ decomp.useGzip_ /\ op.name = "read") =>
    /\ \A i \in DOMAIN op.rd :
         ShortHeaderRead(op.rd[i]) =>
           (op.err = "readAll" /\ i = Len(op.rd) /\ op.ret = <<>>)
    /\ op.err = "readAll" => ShortHeaderRead(op.rd[Len(op.rd)])
    /\ (hist.pulls = 1 /\ op.size > 0) =>
         LET n == GzipHeaderLen(hist.isAll)
         IN /\ IsPrefix(op.hdr, hist.isAll)
            /\ n > 0 => Len(op.hdr) <= n
            /\ (n > 0 /\ op.err # "readAll") =>
                 (op.hdr = Take(hist.isAll, n) /\ decomp.readGzipHeader_)
            /\ (n = 0 /\ ~BadStart(hist.isAll)) => op.err = "readAll"

\* C6's case: the extra field and the name were taken and a read in the
\* comment came back short
TruncatedHeaderWitness ==
  /\ FirstGzipPull /\ Take(hist.isAll, 4) = <<31, 139, 8, 30>>
  /\ op.err = "readAll" /\ Len(op.hdr) = 16

(* C7  Use-after-finish: after flush has been called, every exec call,    *)
(* with whatever data (none included), fails with an error, writes nothing *)
(* to the sink and leaves crc_ and totalSize_ as they were.                *)
UseAfterFinish ==
  [][(comp.life = "live" /\ comp.isFlushCalled_ /\ op'.name = "exec")
       => /\ op'.err # "ok"
          /\ os' = os
          /\ comp'.crc_ = comp.crc_
          /\ comp'.totalSize_ = comp.totalSize_]_vars

(* C8  Finish at most once: a second flush call is refused and diagnosed, *)
(* so the sink gets the engine's final bytes and the trailer only once.    *)
FinishAtMostOnce ==
  (op.name = "flush" /\ hist.nFlush > 1) => (op.err # "ok" /\ op.wr = <<>>)

(* C9  Eager gzip header: the constructor of a gzip compressor asks the   *)
(* sink once, for the 10 bytes 1F 8B 08 00 00 00 00 00 00 03, which are    *)
(* then the first bytes of the sink stream for as long as the compressor   *)
(* lives; the constructor of a raw compressor writes nothing.              *)
EagerGzipHeader ==
  /\ op.name = "ZlibCompressorT" =>
       IF hist.gz
         THEN /\ op.wr = <<10>>
              /\ op.err = "ok" => os = <<31, 139, 8, 0, 0, 0, 0, 0, 0, 3>>
         ELSE op.wr = <<>> /\ os = <<>>
  /\ (comp.life = "live" /\ comp.useGzip_) =>
       Take(os, 10) = <<31, 139, 8, 0, 0, 0, 0, 0, 0, 3>>

\* C9's case: a gzip compressor has just been constructed
EagerGzipHeaderWitness ==
  /\ op.name = "ZlibCompressorT" /\ op.err = "ok" /\ hist.gz
  /\ comp.life = "live" /\ Len(os) = 10

\* the last n bytes of s
Last(s, n) == SubSeq(s, Len(s) - n + 1, Len(s))

RECURSIVE Sum(_)
Sum(s) == IF s = <<>> THEN 0 ELSE Head(s) + Sum(Tail(s))

(* C10  Gzip trailer: a flush that succeeds in gzip mode writes, after    *)
(* the bytes the engine produced in it, 8 bytes in one write: the CRC-32   *)
(* of all data passed to exec and then the total length of that data mod   *)
(* 2^32, both least significant byte first; with no data the sink holds    *)
(* the 10 header bytes, the engine's bytes and these 8.  In raw mode it    *)
(* writes the engine's bytes and nothing else.                             *)
GzipTrailer ==
  (op.name = "flush" /\ op.err = "ok") =>
    LET crc == crc32(Word0, hist.passed)
        len == Len(hist.passed)
        tail == <<crc[2] % 256, crc[2] \div 256, crc[1] % 256, crc[1] \div 256,
                  len % 256, (len \div 256) % 256, (len \div 65536) % 256,
                  (len \div 16777216) % 256>>
    IN IF hist.gz
         THEN /\ Len(os) >= Len(op.eng) + 8
              /\ Last(os, Len(op.eng) + 8) = op.eng \o tail
              /\ op.wr[Len(op.wr)] = 8
              /\ Sum(op.wr) = Len(op.eng) + 8
              /\ (hist.passed = <<>> /\ hist.nFlush = 1) =>
                   os = <<31, 139, 8, 0, 0, 0, 0, 0, 0, 3>> \o op.eng
                          \o <<0, 0, 0, 0, 0, 0, 0, 0>>
         ELSE /\ Len(os) >= Len(op.eng)
              /\ Last(os, Len(op.eng)) = op.eng
              /\ Sum(op.wr) = Len(op.eng)

\* C10's case: a gzip compressor flushed after the bytes 07 09 09, whose
\* CRC-32 is 5210CC7A
GzipTrailerWitness ==
  /\ op.name = "flush" /\ op.err = "ok" /\ hist.gz /\ hist.nFlush = 1
  /\ hist.passed = <<7, 9, 9>>
  /\ Last(os, 8) = <<122, 204, 16, 82, 3, 0, 0, 0>>

\* the step is a call on the compressor: its constructor, exec or flush
CompressorCall == op'.name \in {"ZlibCompressorT", "exec", "flush"}

(* C11  Short sink write is fatal: when os_.write returns another count   *)
(* than it was asked for, in the constructor, in exec or in flush, the     *)
(* call throws the write error at once: that write is its last, no deflate *)
(* call follows it, and the sink keeps what it had and what it accepted.   *)
ShortSinkWriteFatal ==
  [][CompressorCall =>
       /\ Len(op'.acc) = Len(op'.wr)
       /\ \A i \in DOMAIN op'.wr :
            op'.acc[i] # op'.wr[i] =>
              /\ op'.err = "write"
              /\ i = Len(op'.wr)
              /\ Len(op'.prod) <= i
       /\ op'.err = "write" => op'.acc[Len(op'.wr)] # op'.wr[Len(op'.wr)]
       /\ IsPrefix(os, os')
       /\ Len(os') = Len(os) + Sum(op'.acc)
       /\ op'.name = "exec" => os' = os \o Take(op'.eng, Sum(op'.acc))]_vars

\* C11's case: an exec call whose first write was taken whole and whose
\* second write came back short, with bytes of it accepted
ShortSinkWriteWitness ==
  /\ op.name = "exec" /\ op.err = "write"
  /\ Len(op.wr) = 2 /\ op.acc[1] = op.wr[1] /\ op.acc[1] > 0
  /\ op.acc[2] < op.wr[2] /\ op.acc[2] > 0

\* the call made in this step is a read that read the body and got the
\* count 0 from is_.read
ZeroBodyRead == \E i \in DOMAIN op'.rd : op'.rd[i] = <<"b", maxBufSize, 0>>

(* C12  Zero-length source read during body decompression is tolerated:  *)
(* a read call on a valid stream in which is_.read returns 0 for the body, *)
(* with the engine's input empty, the end not yet signalled and bytes    *)
(* still to come from the source, throws nothing.                          *)
ZeroBodyReadTolerated ==
  [][(/\ decomp.life = "live" /\ op'.name = "read"
      /\ ValidStream
      /\ decomp.ret_ # "Z_STREAM_END"
      /\ ZeroBodyRead
      /\ is' # <<>>)
       => op'.err = "ok"]_vars

(* C13  Engine handle release: an engine handle that was initialized is   *)
(* released exactly once on every way out: deflateEnd has been called once *)
(* when the compressor is gone, whether it was destroyed (after calls that *)
(* failed or not) or its constructor threw at the header write after       *)
(* deflateInit2; inflateEnd has been called once when the decompressor is  *)
(* gone; neither is called while the object lives.                         *)
EngineHandleRelease ==
  /\ comp.life \in {"dead", "unbuilt"} => hist.deflateEnds = 1
  /\ comp.life = "live" => hist.deflateEnds = 0
  /\ decomp.life = "dead" => hist.inflateEnds = 1
  /\ decomp.life = "live" => hist.inflateEnds = 0

\* the call made in this step read from the stream for the gzip header
HeaderParseStarted == \E i \in DOMAIN op'.rd : op'.rd[i][1] = "h"

(* C14  Gzip header parsed at most once: over the read calls made on one  *)
(* decompressor, those after a read that threw while parsing the header    *)
(* included, header parsing is started at most once; the constructor reads *)
(* nothing from the stream, and in raw mode nothing is ever read as header. *)
GzipHeaderParsedOnce ==
  [][/\ op'.name = "ZlibDecompressorT" => (is' = hist'.isAll /\ op'.rd = <<>>)
     /\ (decomp.life = "live" /\ op'.name = "read") =>
          /\ ~decomp.useGzip_ => ~HeaderParseStarted
          /\ (hist.hdrFail \/ decomp.readGzipHeader_) => ~HeaderParseStarted]_vars

(* C15  Pull result bounds: a read call that returns normally returns at  *)
(* most size bytes, and with size > 0 it returns none only when the engine *)
(* has signalled the end: never because is_.read gave few bytes or none,   *)
(* nor because inflate took input and produced nothing.                    *)
PullResultBounds ==
  (op.name = "read" /\ op.err = "ok") =>
    /\ Len(op.ret) <= op.size
    /\ (op.size > 0 /\ op.ret = <<>>) => decomp.ret_ = "Z_STREAM_END"

\* C15's case: a read whose first inflate call took what a short is_.read
\* gave and produced nothing, and which went on and returned a byte
PullResultBoundsWitness ==
  /\ op.name = "read" /\ op.err = "ok" /\ op.size > 0
  /\ Len(op.it) >= 2 /\ op.it[1] = <<0, "Z_OK">>
  /\ \E i \in DOMAIN op.rd : op.rd[i] = <<"b", maxBufSize, 1>>
  /\ op.ret # <<>>

(* C16  A read call with size 0 returns 0 at once and changes nothing: it *)
(* calls neither is_.read nor inflate, does not parse the gzip header even *)
(* as the first call, and leaves readGzipHeader_, ret_, the buffered input *)
(* and everything else of the decompressor and the stream as they were.    *)
PullZeroNoOp ==
  [][(decomp.life = "live" /\ op'.name = "read" /\ op'.size = 0) =>
       /\ op'.err = "ok" /\ op'.ret = <<>>
       /\ op'.rd = <<>> /\ op'.hdr = <<>> /\ op'.it = <<>>
       /\ decomp' = decomp
       /\ is' = is]_vars

\* C16's case: size 0 in the first call on a gzip decompressor with a stream
\* to read
PullZeroWitness ==
  /\ op.name = "read" /\ op.size = 0
  /\ decomp.life = "live" /\ decomp.useGzip_
  /\ hist.pulls = 0 /\ is # <<>> /\ is = hist.isAll

(* C17 (as claimed)  Pull drain loop: in one read call the loop (read     *)
(* into the buffer if the input is empty, call inflate) repeats only while *)
(* the engine has produced exactly size bytes, and stops as soon as less   *)
(* than size has been produced or the engine signals the end.              *)
DrainLoopWhileFull ==
  (op.name = "read" /\ op.size > 0) =>
    \A i \in 1..(Len(op.it) - 1) : op.it[i][1] = op.size

(* C17 (amended)  The loop repeats only while inflate has returned Z_OK   *)
(* and nothing at all has been produced in this call, and stops as soon as *)
(* a byte has been produced or the engine signals the end; is_.read is     *)
(* called at most once before each inflate call.                           *)
DrainLoopWhileEmpty ==
  (op.name = "read" /\ op.size > 0) =>
    /\ \A i \in 1..(Len(op.it) - 1) : op.it[i] = <<0, "Z_OK">>
    /\ (op.err = "ok" /\ op.it # <<>>) =>
         \/ op.it[Len(op.it)][1] > 0
         \/ op.it[Len(op.it)][2] = "Z_STREAM_END"
    /\ Cardinality({i \in DOMAIN op.rd : op.rd[i][1] = "b"}) <= Len(op.it) + 1

\* C17's case: a read that called inflate three times with nothing produced
\* and then got its bytes
DrainLoopWitness ==
  /\ op.name = "read" /\ op.size = 2 /\ op.err = "ok"
  /\ Len(op.it) >= 4 /\ Len(op.ret) = 2

\* the read calls compared for two streams
TrailerPulls == 3

\* the trailers put in the place of a stream's own
OtherTrailers == {<<0, 0, 0, 0, 0, 0, 0, 0>>, <<1, 2, 3, 4, 5, 0, 0, 0>>}

\* what read calls of the given sizes, one after the other, can give on
\* stream s: for each call the bytes returned and the exception thrown, up
\* to the first call that throws
RECURSIVE PullRuns(_, _, _, _)
PullRuns(d, s, kind, sizes) ==
  IF sizes = <<>> THEN {<<>>}
  ELSE UNION {
         {<<[ret |-> r.op.ret, err |-> r.op.err]>> \o rest
            : rest \in (IF r.op.err # "ok" THEN {<<>>}
                        ELSE PullRuns(r.decomp, r.is, kind, Tail(sizes)))}
           : r \in read(d, s, Head(sizes), kind)}

(* C18  The decompressor does not validate the gzip trailer: a gzip       *)
(* stream and the same stream with other 8 bytes after its body give the   *)
(* same results to the same read calls, and no exception when the source   *)
(* returns what it is asked for; crc_ and totalSize_ of the decompressor   *)
(* stay at their initial values whatever read calls are made.              *)
TrailerNotValidated ==
  /\ decomp.life = "live" => (decomp.crc_ = Word0 /\ decomp.totalSize_ = Word0)
  /\ (op.name = "ZlibDecompressorT" /\ decomp.useGzip_ /\ ValidStream) =>
       \A sizes \in [1..TrailerPulls -> 1..MaxPull] :
         LET own == PullRuns(decomp, is, isKind, sizes)
         IN /\ \A t \in OtherTrailers :
                 PullRuns(decomp, Take(is, Len(is) - 8) \o t, isKind, sizes) = own
            /\ isKind = "exact" => \A run \in own : \A i \in DOMAIN run : run[i].err = "ok"

\* C18's case: the stream whose trailer is wrong was read to its end, its
\* trailer in the buffer, and returned its data and no exception
TrailerNotValidatedWitness ==
  /\ decomp.life = "live" /\ decomp.useGzip_
  /\ hist.isAll = WrongTrailer
  /\ hist.dOk /\ hist.outAll = <<7>> /\ PullReturnedZero
  /\ decomp.in = <<1, 2, 3>>

(* C19  Finished means finalized: when isFlushCalled_ is true, deflate    *)
(* has returned Z_STREAM_END and, in gzip mode, the 8-byte trailer has been *)
(* written to the sink; a flush call that throws leaves isFlushCalled_     *)
(* false.  Stated of the compressor as its first flush call leaves it.     *)
FinishedMeansFinalized ==
  (comp.life = "live" /\ op.name = "flush" /\ hist.nFlush = 1) =>
    /\ comp.isFlushCalled_ =>
         /\ op.end
         /\ comp.useGzip_ =>
              (op.wr # <<>> /\ op.wr[Len(op.wr)] = 8 /\ op.acc[Len(op.acc)] = 8)
    /\ op.err # "ok" => ~comp.isFlushCalled_

\* the body reads of the last call ask for at most maxBufSize bytes, and the
\* decompressor's buffered input lies within buf_
BoundedInput ==
  /\ op.name = "read" =>
       \A i \in DOMAIN op.rd : op.rd[i][1] = "b" => op.rd[i][2] <= maxBufSize
  /\ decomp.life = "live" =>
       (decomp.off >= 0 /\ decomp.off + Len(decomp.in) <= maxBufSize)

(* C20 (as claimed)  Bounded staging: every write exec or flush asks of   *)
(* the sink is of at most maxBufSize bytes and of exactly the bytes the    *)
(* deflate call before it produced; every body read asks for at most       *)
(* maxBufSize bytes; the buffered input of the decompressor lies within    *)
(* buf_ for every count is_.read returns.                                  *)
BoundedStaging ==
  /\ op.name \in {"exec", "flush"} =>
       \A i \in DOMAIN op.wr :
         /\ op.wr[i] <= maxBufSize
         /\ i <= Len(op.prod) /\ op.wr[i] = op.prod[i]
  /\ BoundedInput

(* C20 (amended)  That holds of the writes of buf_.  In gzip mode flush   *)
(* makes one more write after deflate has returned Z_STREAM_END: the 8     *)
(* bytes of the trailer, from an array of its own, whatever maxBufSize is. *)
BoundedStagingScratch ==
  /\ op.name \in {"exec", "flush"} =>
       \A i \in DOMAIN op.wr :
         IF i <= Len(op.prod)
           THEN op.wr[i] <= maxBufSize /\ op.wr[i] = op.prod[i]
           ELSE /\ op.name = "flush" /\ hist.gz /\ op.end
                /\ i = Len(op.prod) + 1 /\ op.wr[i] = 8
  /\ BoundedInput

\* C20's case: a gzip flush that wrote buf_ full, wrote it again, and then
\* wrote the trailer
BoundedStagingWitness ==
  /\ op.name = "flush" /\ op.err = "ok" /\ hist.gz
  /\ Len(op.prod) >= 2 /\ op.wr[1] = maxBufSize
  /\ Len(op.wr) = Len(op.prod) + 1

====
